---- MODULE Spec2Model ----
(***************************************************************************)
(* jsonx-mock: the MockServer of src/src/bin/cli.ts (lines 74-424) and the *)
(* User model of src/unnamed/part_000, as a state machine.                 *)
(*                                                                         *)
(* The express application is a stack of layers walked in registration     *)
(* order; a request is a turn of the event loop that walks the stack until *)
(* a layer responds or suspends (setTimeout of the delay middleware).      *)
(* Collection, Validator and Auth are not part of the sources at hand and  *)
(* are modelled from their specification.                                  *)
(***************************************************************************)
EXTENDS Integers, Sequences, FiniteSets, TLC

VARIABLES
  config,       \* MockServer.config: [auth |-> BOOLEAN, delay |-> Nat]
  middlewares,  \* MockServer.middlewares: [pre |-> Seq, post |-> Seq]
  stack,        \* the layers of MockServer.app, in registration order
  started,      \* start(): "no", "initializing" (awaiting initialize()), "listening"
  db,           \* configManager.getDatabase(): NoDb before initialize()
  now,          \* the wall clock read by Date.now()
  pending,      \* requests suspended in the event loop, each with its continuation
  last,         \* the last response sent, with the request it answers
  issued        \* the ids of the records created so far, in order of creation

vars == <<config, middlewares, stack, started, db, now, pending, last, issued>>

-----------------------------------------------------------------------------
(* Bounds of the model *)

MaxId == 2          \* inserts per collection
MaxListed == 3      \* inserts per collection when listing
MaxClock == 1       \* ticks of the wall clock
MaxPending == 2     \* requests suspended at the same time
MaxRegistered == 2  \* pre()/post() registrations
MaxCustom == 1      \* addCustomRoute() registrations

-----------------------------------------------------------------------------
(* Values *)

Undef == "undefined"
Null == [null |-> TRUE]
NoDb == [nodb |-> TRUE]
NoBody == [nobody |-> TRUE]

Principals == {"p1", "p2"}
NoToken == "none"
Tokens == Principals \cup {NoToken}

\* src/unnamed/part_000: the User model, one resource named after it
UserResource == "users"

\* User with the @AutoIncrement() decorator left off its id (a faulty variant)
AutoIncrementMissing == {}

\* the fields of User carrying @AutoIncrement()
AutoIncrementFields == {"id"}

NameMin == 2
NameMax == 50
AgeMin == 0
AgeMax == 150

\* the declared fields of User with their constraints
UserSchema ==
  [id   |-> [type |-> "number", required |-> FALSE,
             autoIncrement |-> "id" \in AutoIncrementFields],
   name |-> [type |-> "string", required |-> TRUE, min |-> NameMin, max |-> NameMax,
             autoIncrement |-> FALSE],
   age  |-> [type |-> "number", required |-> FALSE, min |-> AgeMin, max |-> AgeMax,
             autoIncrement |-> FALSE]]

Models == {UserResource}

Schema(resource) == [r \in Models |-> UserSchema][resource]

\* one decimal digit of a route parameter or query value
DigitValue ==
  [c \in {"0", "1", "2", "3", "4", "5", "6", "7", "8", "9"} |->
     CASE c = "0" -> 0 [] c = "1" -> 1 [] c = "2" -> 2 [] c = "3" -> 3 [] c = "4" -> 4
       [] c = "5" -> 5 [] c = "6" -> 6 [] c = "7" -> 7 [] c = "8" -> 8 [] c = "9" -> 9]

\* the number a string of decimal digits converts to (s is its characters)
RECURSIVE ToNumber(_)
ToNumber(s) ==
  IF s = <<>> THEN 0
  ELSE 10 * ToNumber(SubSeq(s, 1, Len(s) - 1)) + DigitValue[s[Len(s)]]

Min(a, b) == IF a < b THEN a ELSE b
Max(a, b) == IF a > b THEN a ELSE b

\* { ...a, ...b }
Spread(a, b) ==
  [f \in DOMAIN a \cup DOMAIN b |-> IF f \in DOMAIN b THEN b[f] ELSE a[f]]

-----------------------------------------------------------------------------
(* Collection: an ordered record sequence with its auto-increment counter. *)
(* A view is the collection with the chain of where() conditions so far.   *)

EmptyCollection == [data |-> <<>>, counter |-> 0]

getModel(d, resource) ==
  IF resource \in DOMAIN d
    THEN [name |-> resource, data |-> d[resource].data,
          counter |-> d[resource].counter, conds |-> <<>>]
    ELSE Null

where(view, key, op, value) ==
  [view EXCEPT !.conds = Append(@, [key |-> key, op |-> op, value |-> value])]

Matches(rec, conds) ==
  \A i \in 1..Len(conds) :
    /\ conds[i].key \in DOMAIN rec
    /\ conds[i].op = "=" => rec[conds[i].key] = conds[i].value

find(view) == SelectSeq(view.data, LAMBDA r : Matches(r, view.conds))

\* id is the route parameter, a one-digit string
HasId(rec, id) == "id" \in DOMAIN rec /\ rec.id = ToNumber(<<id>>)

findById(view, id) ==
  IF \E i \in 1..Len(view.data) : HasId(view.data[i], id)
    THEN view.data[CHOOSE i \in 1..Len(view.data) : HasId(view.data[i], id)]
    ELSE Null

\* insert(partial): the next id when the schema declares an auto-increment field,
\* appended at the end (the createdAt stamp, which nothing reads, is left out)
insert(view, partial) ==
  LET auto == {f \in DOMAIN Schema(view.name) : Schema(view.name)[f].autoIncrement}
      next == view.counter + 1
      rec  == Spread(partial, [f \in auto |-> next])
  IN [coll   |-> [data |-> Append(view.data, rec), counter |-> next],
      result |-> rec]

\* updateById(id, partial): merge, id and createdBy kept, updatedAt refreshed
updateById(view, id, partial, t) ==
  LET old == findById(view, id)
      kept == [f \in DOMAIN old \cap {"id", "createdBy"} |-> old[f]]
      rec == Spread(Spread(Spread(old, partial), [updatedAt |-> t]), kept)
  IN IF old = Null
       THEN [coll |-> [data |-> view.data, counter |-> view.counter], result |-> Null]
       ELSE [coll |-> [data |-> [i \in 1..Len(view.data) |->
                                   IF HasId(view.data[i], id) THEN rec ELSE view.data[i]],
                       counter |-> view.counter],
             result |-> rec]

\* delete(): takes no id. Either every record of the view is removed (the
\* view-level operation) or none is (deleteById with its id absent).
DeleteOutcomes == {"view", "none"}

delete(view, outcome) ==
  [data |-> IF outcome = "view"
              THEN SelectSeq(view.data, LAMBDA r : ~Matches(r, view.conds))
              ELSE view.data,
   counter |-> view.counter]

-----------------------------------------------------------------------------
(* Validator.validate(resource, body): every violation, and the value *)

validate(resource, body) ==
  LET s == Schema(resource)
      errs ==
        IF resource \notin Models THEN {[field |-> resource, kind |-> "UnknownResource"]}
        ELSE {[field |-> f, kind |-> "MissingField"] :
                f \in {g \in DOMAIN s : s[g].required /\ g \notin DOMAIN body}}
          \cup {[field |-> f, kind |-> "ReadOnlyFieldViolation"] :
                f \in {g \in DOMAIN s : s[g].autoIncrement /\ g \in DOMAIN body}}
          \cup {[field |-> f, kind |-> "TooShort"] :
                f \in {g \in DOMAIN s \cap DOMAIN body :
                         s[g].type = "string" /\ "min" \in DOMAIN s[g]
                         /\ Len(body[g]) < s[g].min}}
          \cup {[field |-> f, kind |-> "TooLong"] :
                f \in {g \in DOMAIN s \cap DOMAIN body :
                         s[g].type = "string" /\ "max" \in DOMAIN s[g]
                         /\ Len(body[g]) > s[g].max}}
          \cup {[field |-> f, kind |-> "TooSmall"] :
                f \in {g \in DOMAIN s \cap DOMAIN body :
                         s[g].type = "number" /\ "min" \in DOMAIN s[g]
                         /\ body[g] < s[g].min}}
          \cup {[field |-> f, kind |-> "TooLarge"] :
                f \in {g \in DOMAIN s \cap DOMAIN body :
                         s[g].type = "number" /\ "max" \in DOMAIN s[g]
                         /\ body[g] > s[g].max}}
  IN [error |-> errs, value |-> body]

-----------------------------------------------------------------------------
(* Auth: the claims of a valid token, or Null *)

verify(token) == IF token \in Principals THEN [id |-> token] ELSE Null

\* req.user?.id
UserId(user) == IF user = Null THEN Undef ELSE user.id

-----------------------------------------------------------------------------
(* The route handlers. Each returns the database it leaves and the response *)
(* it sends. The async handlers contain no await: they run from their first *)
(* statement to their response in one turn of the event loop. A handler     *)
(* named in HandlerAwaits would instead yield between its checks and its    *)
(* mutation and be resumed (resumed = TRUE) in a later turn.                *)

\* handleDelete with an await between its ownership check and collection.delete()
\* (a faulty variant)
HandlerAwaitsDelete == {"handleDelete"}

\* the handlers whose body awaits between its checks and its mutation: none does
HandlerAwaits == {}

Reply(d, status, body) == [kind |-> "sent", db |-> d, status |-> status, body |-> body]
Yield(d) == [kind |-> "await", db |-> d, status |-> 0, body |-> NoBody]

NotFoundResource == [error |-> "Resource not found"]
NotFoundItem == [error |-> "Not found"]

ValidationError(error) ==
  [error |-> "Validation error", details |-> {e.field : e \in error}]

\* Array.prototype.slice(start, end)
slice(data, start, end) ==
  LET n == Len(data)
      from == IF start < 0 THEN Max(n + start, 0) ELSE Min(start, n)
      to == IF end < 0 THEN Max(n + end, 0) ELSE Min(end, n)
  IN SubSeq(data, from + 1, to)

\* Math.ceil(a / b), b > 0
Ceil(a, b) == (a + b - 1) \div b

PageKeys == {"current_page", "page_size"}

\* the window with pages counted from 0 (a faulty variant)
PageWindowZeroBased(current_page, page_size) ==
  [start |-> current_page * page_size, end |-> (current_page + 1) * page_size]

\* start = (current_page - 1) * page_size, end = current_page * page_size
PageWindow(current_page, page_size) ==
  [start |-> (current_page - 1) * page_size, end |-> current_page * page_size]

RECURSIVE Filtered(_, _, _)
Filtered(view, query, keys) ==
  IF keys = {} THEN view
  ELSE LET k == CHOOSE x \in keys : TRUE
       IN Filtered(where(view, k, "=", query[k]), query, keys \ {k})

handleGetList(d, req) ==
  LET resource == req.path[1]
      q == req.query
      current_page == IF "current_page" \in DOMAIN q THEN ToNumber(q.current_page) ELSE 1
      page_size == IF "page_size" \in DOMAIN q THEN ToNumber(q.page_size) ELSE 10
      collection == getModel(d, resource)
      data == find(Filtered(collection, q, DOMAIN q \ PageKeys))
      w == PageWindow(current_page, page_size)
      paginatedData == slice(data, w.start, w.end)
  IN IF d = NoDb THEN Reply(d, 404, NotFoundResource)
     ELSE IF collection = Null THEN Reply(d, 404, NotFoundResource)
     ELSE Reply(d, 200,
                [data |-> paginatedData,
                 pagination |-> [total |-> Len(data),
                                 current_page |-> current_page,
                                 per_page |-> page_size,
                                 total_pages |-> Ceil(Len(data), page_size)]])

handleGetOne(d, req) ==
  LET resource == req.path[1]
      id == req.path[2]
      collection == getModel(d, resource)
      item == IF collection = Null THEN Null ELSE findById(collection, id)
  IN IF d = NoDb THEN Reply(d, 404, NotFoundResource)
     ELSE IF item = Null THEN Reply(d, 404, NotFoundItem)
     ELSE Reply(d, 200, item)

\* { ...value, createdBy: req.user?.id }
NewItem(value, user) == Spread(value, [createdBy |-> UserId(user)])

handlePost(d, req, user, resumed) ==
  LET resource == req.path[1]
      v == validate(resource, req.body)
      collection == getModel(d, resource)
      r == insert(collection, NewItem(v.value, user))
  IN IF resumed
       THEN Reply([d EXCEPT ![resource] = r.coll], 200,
                  [data |-> r.result, message |-> "Resource created successfully"])
     ELSE IF d = NoDb THEN Reply(d, 404, NotFoundResource)
     ELSE IF v.error # {} THEN Reply(d, 400, ValidationError(v.error))
     ELSE IF collection = Null THEN Reply(d, 404, NotFoundResource)
     ELSE IF "handlePost" \in HandlerAwaits THEN Yield(d)
     ELSE Reply([d EXCEPT ![resource] = r.coll], 200,
                [data |-> r.result, message |-> "Resource created successfully"])

\* the payload with the optional fields the body lacks set to defaults (a faulty
\* variant)
PutPayloadDefaults(value, t) == Spread([age |-> 0], Spread(value, [updatedAt |-> t]))

\* { ...value, updatedAt: Date.now() }
PutPayload(value, t) == Spread(value, [updatedAt |-> t])

handlePut(d, req, user, t, resumed) ==
  LET resource == req.path[1]
      id == req.path[2]
      v == validate(resource, req.body)
      collection == getModel(d, resource)
      r == updateById(collection, id, PutPayload(v.value, t), t)
  IN IF resumed THEN Reply([d EXCEPT ![resource] = r.coll], 200, r.result)
     ELSE IF d = NoDb THEN Reply(d, 404, NotFoundResource)
     ELSE IF v.error # {} THEN Reply(d, 400, ValidationError(v.error))
     ELSE IF collection = Null THEN Reply(d, 404, NotFoundResource)
     ELSE IF "handlePut" \in HandlerAwaits THEN Yield(d)
     ELSE Reply([d EXCEPT ![resource] = r.coll], 200, r.result)

handleDelete(d, req, user, outcome, resumed) ==
  LET resource == req.path[1]
      id == req.path[2]
      collection == getModel(d, resource)
      item == findById(collection, id)
  IN IF resumed
       THEN Reply([d EXCEPT ![resource] = delete(collection, outcome)], 204, NoBody)
     ELSE IF d = NoDb THEN Reply(d, 404, NotFoundResource)
     ELSE IF collection = Null THEN Reply(d, 404, NotFoundResource)
     ELSE IF item = Null THEN Reply(d, 404, NotFoundItem)
     ELSE IF config.auth /\ item.createdBy # UserId(user)
       THEN Reply(d, 403, [error |-> "Permission denied"])
     ELSE IF "handleDelete" \in HandlerAwaits THEN Yield(d)
     ELSE Reply([d EXCEPT ![resource] = delete(collection, outcome)], 204, NoBody)

-----------------------------------------------------------------------------
(* The express application: layers registered with app.use / app.METHOD *)

Use(name) == [kind |-> "use", name |-> name]
DelayLayer == [kind |-> "delay"]
AuthLayer == [kind |-> "auth"]
Mw(m) == [kind |-> "mw", name |-> m]
Route(method, pattern, handler) ==
  [kind |-> "route", method |-> method, pattern |-> pattern, handler |-> handler]

RouteParams == {":resource", ":id"}

RouteMatches(l, req) ==
  /\ l.method = req.method
  /\ Len(l.pattern) = Len(req.path)
  /\ \A i \in 1..Len(l.pattern) : l.pattern[i] \in RouteParams \/ l.pattern[i] = req.path[i]

setupMiddlewares(stk) ==
  stk \o <<Use("cors"), Use("json"), Use("urlencoded")>>
      \o (IF config.delay > 0 THEN <<DelayLayer>> ELSE <<>>)
      \o (IF config.auth THEN <<AuthLayer>> ELSE <<>>)

setupRoutes(stk) ==
  stk \o <<Route("GET", <<":resource">>, "handleGetList"),
           Route("GET", <<":resource", ":id">>, "handleGetOne"),
           Route("POST", <<":resource">>, "handlePost"),
           Route("PUT", <<":resource", ":id">>, "handlePut"),
           Route("DELETE", <<":resource", ":id">>, "handleDelete")>>

Layers(ms) == [i \in 1..Len(ms) |-> Mw(ms[i])]

CrudHandlers == {"handleGetList", "handleGetOne", "handlePost", "handlePut", "handleDelete"}
MutatingHandlers == {"handlePost", "handlePut", "handleDelete"}

\* the handler of a matched route, run on the request
Handle(handler, c) ==
  CASE handler = "handleGetList" -> handleGetList(c.db, c.req)
    [] handler = "handleGetOne" -> handleGetOne(c.db, c.req)
    [] handler = "handlePost" -> handlePost(c.db, c.req, c.user, c.resumed)
    [] handler = "handlePut" -> handlePut(c.db, c.req, c.user, c.t, c.resumed)
    [] handler = "handleDelete" -> handleDelete(c.db, c.req, c.user, c.outcome, c.resumed)
    [] OTHER -> Reply(c.db, 200, [custom |-> handler])

Sent(c, r, handler) ==
  [kind |-> "sent", db |-> r.db, status |-> r.status, body |-> r.body,
   ran |-> c.ran, handler |-> handler, user |-> c.user, at |-> 0, resumed |-> FALSE]

Suspended(c, at, resumed) ==
  [kind |-> "suspended", db |-> c.db, status |-> 0, body |-> NoBody,
   ran |-> c.ran, handler |-> "none", user |-> c.user, at |-> at, resumed |-> resumed]

\* One turn of the event loop on a request: the layers from position i on, until
\* one responds or suspends; express answers 404 past the last layer.
RECURSIVE Walk(_, _, _)
Walk(stk, i, c) ==
  IF i > Len(stk) THEN Sent(c, Reply(c.db, 404, [error |-> "Cannot " \o c.req.method]), "none")
  ELSE LET l == stk[i] IN
    CASE l.kind = "use" -> Walk(stk, i + 1, c)
      [] l.kind = "delay" -> Suspended(c, i + 1, FALSE)
      [] l.kind = "auth" ->
           IF verify(c.req.token) = Null
             THEN Sent(c, Reply(c.db, 401, [error |-> "Unauthorized"]), "none")
             ELSE Walk(stk, i + 1, [c EXCEPT !.user = verify(c.req.token)])
      [] l.kind = "mw" -> Walk(stk, i + 1, [c EXCEPT !.ran = Append(@, l.name)])
      [] l.kind = "route" ->
           IF ~RouteMatches(l, c.req) THEN Walk(stk, i + 1, c)
           ELSE LET r == Handle(l.handler, c)
                    c2 == [c EXCEPT !.ran = IF c.resumed THEN @ ELSE Append(@, l.handler)]
                IN IF r.kind = "await" THEN Suspended(c2, i, TRUE)
                   ELSE Sent(c2, r, l.handler)

-----------------------------------------------------------------------------
(* Requests *)

NoQuery == [k \in {} |-> Undef]

Req(method, path, token, body, query) ==
  [method |-> method, path |-> path, token |-> token, body |-> body, query |-> query]

RouteIds == {"1", "2"}

PostBodies ==
  {[name |-> "Bob", age |-> 30], [name |-> "A"], [name |-> "Bob", age |-> 30, createdBy |-> "p2"]}

PutBodies ==
  {[name |-> "Ann"], [name |-> "Ann", createdBy |-> "p2"], [name |-> "Ann", id |-> 7]}

CrudRequests ==
  {Req("GET", <<UserResource, i>>, t, NoBody, NoQuery) : i \in RouteIds, t \in Tokens}
    \cup {Req("POST", <<UserResource>>, t, b, NoQuery) : t \in Tokens, b \in PostBodies}
    \cup {Req("POST", <<"ghost">>, t, [name |-> "Ann"], NoQuery) : t \in Principals}
    \cup {Req("PUT", <<UserResource, i>>, t, b, NoQuery) :
            i \in RouteIds, t \in Tokens, b \in PutBodies}
    \cup {Req("DELETE", <<UserResource, i>>, t, NoBody, NoQuery) : i \in RouteIds, t \in Tokens}
    \cup {Req("DELETE", <<"ghost", i>>, t, NoBody, NoQuery) : i \in {"1"}, t \in Principals}

Pages == {<<"1">>, <<"2">>, <<"3">>, <<"0", "4">>}
Sizes == {<<"1">>, <<"2">>}

Queries ==
  {NoQuery, [name |-> "Ann"]}
    \cup {[current_page |-> p, page_size |-> z] : p \in Pages, z \in Sizes}
    \cup {[current_page |-> p, page_size |-> z, name |-> "Bob"] : p \in Pages, z \in Sizes}

ApiRequests ==
  {Req(m, <<UserResource>>, t, NoBody, NoQuery) : m \in {"GET", "PATCH"}, t \in {NoToken, "p1"}}
    \cup {Req("GET", <<"health">>, t, NoBody, NoQuery) : t \in {NoToken, "p1"}}
    \cup {Req("POST", <<UserResource>>, t, [name |-> "Bob", age |-> 30], NoQuery) :
            t \in {NoToken, "p1"}}
    \cup {Req("DELETE", <<UserResource, "1">>, t, NoBody, NoQuery) : t \in {NoToken, "p1"}}

ConcRequests ==
  {Req("POST", <<UserResource>>, t, [name |-> "Bob", age |-> 30], NoQuery) : t \in Principals}
    \cup {Req("DELETE", <<UserResource, i>>, t, NoBody, NoQuery) :
            i \in RouteIds, t \in Principals}
    \cup {Req("PUT", <<UserResource, "1">>, "p1", [name |-> "Ann"], NoQuery)}
    \cup {Req("GET", <<UserResource, "1">>, "p1", NoBody, NoQuery)}

ListRequests ==
  {Req("GET", <<UserResource>>, NoToken, NoBody, q) : q \in Queries}
    \cup {Req("GET", <<"ghost">>, NoToken, NoBody, NoQuery)}
    \cup {Req("POST", <<UserResource>>, NoToken, b, NoQuery) :
            b \in {[name |-> "Ann"], [name |-> "Bob", age |-> 30]}}
    \cup {Req("DELETE", <<UserResource, "1">>, NoToken, NoBody, NoQuery)}

-----------------------------------------------------------------------------
(* The state machine *)

NoRequest == Req("NONE", <<>>, NoToken, NoBody, NoQuery)

\* the state the constructor leaves, for a config among `configs`
InitWith(configs) ==
  /\ config \in configs
  /\ middlewares = [pre |-> <<>>, post |-> <<>>]
  /\ stack = <<>>
  /\ started = "no"
  /\ db = NoDb
  /\ now = 0
  /\ pending = <<>>
  /\ last = [n |-> 0, req |-> NoRequest, status |-> 0, body |-> NoBody,
             ran |-> <<>>, handler |-> "none", user |-> Null]
  /\ issued = <<>>

\* the wall clock advances
Tick ==
  /\ now < MaxClock
  /\ now' = now + 1
  /\ UNCHANGED <<config, middlewares, stack, started, db, pending, last, issued>>

\* start() up to its await of configManager.initialize()
start ==
  /\ started = "no"
  /\ started' = "initializing"
  /\ UNCHANGED <<config, middlewares, stack, db, now, pending, last, issued>>

\* start() from the completion of initialize() on
startResume ==
  /\ started = "initializing"
  /\ db' = [r \in Models |-> EmptyCollection]
  /\ stack' = setupRoutes(setupMiddlewares(stack) \o Layers(middlewares.pre))
                \o Layers(middlewares.post)
  /\ started' = "listening"
  /\ UNCHANGED <<config, middlewares, now, pending, last, issued>>

\* the outcome of a turn: a response sent, or the request suspended
Settle(req, w, rest) ==
  IF w.kind = "sent"
    THEN /\ db' = w.db
         /\ last' = [n |-> 1 - last.n, req |-> req, status |-> w.status, body |-> w.body,
                     ran |-> w.ran, handler |-> w.handler, user |-> w.user]
         /\ issued' = IF w.handler = "handlePost" /\ w.status = 200
                        THEN Append(issued, IF "id" \in DOMAIN w.body.data
                                              THEN w.body.data.id ELSE 0)
                        ELSE issued
         /\ pending' = rest
    ELSE /\ pending' = Append(rest, [req |-> req, at |-> w.at, user |-> w.user,
                                        ran |-> w.ran, resumed |-> w.resumed])
         /\ UNCHANGED <<db, last, issued>>

PendingPosts == Cardinality({i \in 1..Len(pending) : pending[i].req.method = "POST"})

\* a request arrives and is served up to its response or its first suspension
Arrive(requests, cap) ==
  \E req \in requests :
  \E outcome \in IF req.method = "DELETE" THEN DeleteOutcomes ELSE {"none"} :
    /\ started = "listening"
    /\ Len(pending) < MaxPending
    /\ req.method = "POST" => db[UserResource].counter + PendingPosts < cap
    /\ LET w == Walk(stack, 1, [req |-> req, user |-> Null, ran |-> <<>>, db |-> db,
                               t |-> now, outcome |-> outcome, resumed |-> FALSE])
       IN Settle(req, w, pending)
    /\ UNCHANGED <<config, middlewares, stack, started, now>>

\* the timer of the head suspended request fires: its turn continues
Resume ==
  \E outcome \in DeleteOutcomes :
    /\ pending # <<>>
    /\ LET p == Head(pending)
           w == Walk(stack, p.at, [req |-> p.req, user |-> p.user, ran |-> p.ran, db |-> db,
                                   t |-> now, outcome |-> outcome, resumed |-> p.resumed])
       IN Settle(p.req, w, Tail(pending))
    /\ UNCHANGED <<config, middlewares, stack, started, now>>

MwNames == {"m1", "m2"}

Registered == Len(middlewares.pre) + Len(middlewares.post)

IsRegistered(m) ==
  \/ \E i \in 1..Len(middlewares.pre) : middlewares.pre[i] = m
  \/ \E i \in 1..Len(middlewares.post) : middlewares.post[i] = m

pre ==
  \E m \in MwNames :
    /\ Registered < MaxRegistered
    /\ ~IsRegistered(m)
    /\ middlewares' = [middlewares EXCEPT !.pre = Append(@, m)]
    /\ UNCHANGED <<config, stack, started, db, now, pending, last, issued>>

post ==
  \E m \in MwNames :
    /\ Registered < MaxRegistered
    /\ ~IsRegistered(m)
    /\ middlewares' = [middlewares EXCEPT !.post = Append(@, m)]
    /\ UNCHANGED <<config, stack, started, db, now, pending, last, issued>>

CustomRoutes ==
  {[method |-> "GET", pattern |-> <<"health">>, handler |-> "health"],
   [method |-> "DELETE", pattern |-> <<UserResource, ":id">>, handler |-> "purge"]}

CustomCount == Cardinality({i \in 1..Len(stack) :
                              stack[i].kind = "route" /\ stack[i].handler \notin CrudHandlers})

addCustomRoute ==
  \E c \in CustomRoutes :
    /\ CustomCount < MaxCustom
    /\ stack' = Append(stack, Route(c.method, c.pattern, c.handler))
    /\ UNCHANGED <<config, middlewares, started, db, now, pending, last, issued>>

-----------------------------------------------------------------------------
(* Specifications *)

\* a server without response delay, with or without auth: constructed, started,
\* then serving one request at a time
Init == InitWith([auth : BOOLEAN, delay : {0}])

ArriveCrud == Arrive(CrudRequests, MaxId)

Next == start \/ startResume \/ Tick \/ ArriveCrud

Spec == Init /\ [][Next]_vars

-----------------------------------------------------------------------------
(* Properties of the CRUD handlers, under Spec *)

\* a response is sent in this step; last' is the request served and its response
Served == last'.n # last.n

Records(d) == d[UserResource].data

\* the record the route parameter of request q names in database d, or Null
Target(d, q) == findById(getModel(d, UserResource), q.path[2])

Rejections == {400, 401, 403, 404}

WellFormed(q) == q.method \in {"POST", "PUT"} => validate(q.path[1], q.body).error = {}

OnUsers(q) == q.path # <<>> /\ q.path[1] = UserResource

\* C1: with auth enabled, a well-formed PUT or DELETE on a record created by P that
\* is issued by another principal Q is answered 403 and changes nothing.
C1_OnlyOwnerMutates ==
  [][(/\ Served
      /\ config.auth
      /\ last'.req.method \in {"PUT", "DELETE"}
      /\ OnUsers(last'.req)
      /\ WellFormed(last'.req)
      /\ last'.req.token \in Principals
      /\ Target(db, last'.req) # Null
      /\ Target(db, last'.req).createdBy # last'.req.token)
     => (last'.status = 403 /\ db' = db)]_vars

\* C2: a successful DELETE of id X removes the record with id X and nothing else:
\* X is no longer found and the other records are as they were, in the same order.
C2_DeleteRemovesExactlyX ==
  [][(Served /\ last'.handler = "handleDelete" /\ last'.status = 204)
     => (/\ Target(db', last'.req) = Null
         /\ Records(db') = SelectSeq(Records(db),
                                     LAMBDA r : ~HasId(r, last'.req.path[2])))]_vars

\* C3: the ids given to inserted records are strictly increasing in insertion order,
\* never given twice even after deletions, and the live records carry distinct ids
\* among those given, in insertion order.
C3_IdsIncreaseNeverReused ==
  /\ \A i, j \in 1..Len(issued) : i < j => issued[i] < issued[j]
  /\ db # NoDb =>
       /\ \A i \in 1..Len(Records(db)) :
            /\ "id" \in DOMAIN Records(db)[i]
            /\ \E k \in 1..Len(issued) : issued[k] = Records(db)[i].id
       /\ \A i, j \in 1..Len(Records(db)) : i < j => Records(db)[i].id < Records(db)[j].id

\* C3 witness: two inserts with a delete in between: the second record got id 2 and
\* is the only live one.
C3_Witness ==
  /\ issued = <<1, 2>>
  /\ db # NoDb
  /\ Len(Records(db)) = 1
  /\ Records(db)[1].id = 2

\* what a PUT leaves of every record: its id, its createdBy and each field outside
\* `except` that the request body does not carry
PutKeeps(except) ==
     (Served /\ last'.handler = "handlePut")
     => (/\ Len(Records(db')) = Len(Records(db))
         /\ \A i \in 1..Len(Records(db)) :
              LET old == Records(db)[i]
                  new == Records(db')[i]
              IN /\ new.id = old.id
                 /\ new.createdBy = old.createdBy
                 /\ \A f \in ((DOMAIN old \cup DOMAIN new) \ DOMAIN last'.req.body) \ except :
                      f \in DOMAIN old /\ f \in DOMAIN new /\ new[f] = old[f])

\* C5 as claimed: a PUT keeps the record's id and createdBy and every field that is
\* not in the request body.
C5_PutKeepsAllOtherFields == [][PutKeeps({})]_vars

\* C5: a PUT keeps the record's id and createdBy and every field that is not in the
\* request body, updatedAt excepted (the handler sets updatedAt itself).
C5_PutKeepsOtherFieldsButUpdatedAt == [][PutKeeps({"updatedAt"})]_vars

\* C5 witness: a PUT whose body carries createdBy and no age has been applied to a
\* record created by p1 with age 30: both are as they were.
C5_Witness ==
  /\ last.handler = "handlePut"
  /\ last.status = 200
  /\ last.req.body = [name |-> "Ann", createdBy |-> "p2"]
  /\ Target(db, last.req) # Null
  /\ Target(db, last.req).name = "Ann"
  /\ Target(db, last.req).age = 30
  /\ Target(db, last.req).createdBy = "p1"
  /\ "updatedAt" \in DOMAIN Target(db, last.req)

\* C6: GET one, PUT and DELETE on an id with no live record answer 404 and leave the
\* collection and its counter as they were.
C6_MissingIdIsNotFound ==
  [][(/\ Served
      /\ last'.handler \in {"handleGetOne", "handlePut", "handleDelete"}
      /\ OnUsers(last'.req)
      /\ WellFormed(last'.req)
      /\ Target(db, last'.req) = Null)
     => (last'.status = 404 /\ db' = db)]_vars

\* the step of the request state machine at which the request fails, or "none"
FailsAt(d, q) ==
  IF config.auth /\ verify(q.token) = Null THEN "authentication"
  ELSE IF ~WellFormed(q) THEN "validation"
  ELSE IF q.path[1] \notin Models THEN "resource"
  ELSE IF q.method = "POST" \/ Target(d, q) = Null THEN "none"
  ELSE IF config.auth /\ Target(d, q).createdBy # q.token THEN "ownership"
  ELSE "none"

\* C7: a mutating request that fails authentication, validation, the resource lookup
\* or the ownership check ends in a rejection, authentication first, and a rejected
\* request inserts, changes and removes nothing and leaves the counter alone.
C7_FailedStepRejectsWithoutEffect ==
  [][(Served /\ last'.req.method \in {"POST", "PUT", "DELETE"})
     => (/\ FailsAt(db, last'.req) # "none" => last'.status \in Rejections
         /\ FailsAt(db, last'.req) = "authentication" =>
              (last'.status = 401 /\ last'.handler = "none")
         /\ last'.status \in Rejections => (db' = db /\ issued' = issued))]_vars

-----------------------------------------------------------------------------
(* Properties of the list endpoint, under SpecList: a server without auth that *)
(* is filled by POST, emptied by DELETE and listed page by page                 *)

InitList == InitWith([auth : {FALSE}, delay : {0}])

ArriveList == Arrive(ListRequests, MaxListed)

NextList == start \/ startResume \/ ArriveList

SpecList == InitList /\ [][NextList]_vars

DigitChars == <<"1", "2", "3", "4", "5", "6", "7", "8", "9">>

\* the data of pages k..n of the listing that request q asks for, one after the other
RECURSIVE PagesFrom(_, _, _, _)
PagesFrom(d, q, k, n) ==
  IF k > n THEN <<>>
  ELSE handleGetList(d, [q EXCEPT !.query =
                           Spread(q.query, [current_page |-> <<DigitChars[k]>>])]).body.data
         \o PagesFrom(d, q, k + 1, n)

\* the records the filter of query q selects, in insertion order
Selected(d, q) ==
  SelectSeq(Records(d), LAMBDA r : "name" \in DOMAIN q => r.name = q.name)

\* C4: page p >= 1 with page_size >= 1 holds the records at offsets
\* [(p-1)*page_size, p*page_size) of the filtered records in order, total_pages is
\* ceil(total / page_size), a page past total_pages is empty, and pages
\* 1..total_pages one after the other are the filtered records, each once.
C4_PagesPartitionTheResult ==
  [][(Served /\ last'.handler = "handleGetList" /\ last'.status = 200)
     => LET q == last'.req.query
            p == IF "current_page" \in DOMAIN q THEN ToNumber(q.current_page) ELSE 1
            z == IF "page_size" \in DOMAIN q THEN ToNumber(q.page_size) ELSE 10
            full == Selected(db, q)
            total == Len(full)
            from == Min((p - 1) * z, total)
            to == Min(p * z, total)
            out == last'.body
        IN (p >= 1 /\ z >= 1) =>
             /\ out.data = [k \in 1..(to - from) |-> full[from + k]]
             /\ out.pagination.total = total
             /\ out.pagination.total_pages * z >= total
             /\ (out.pagination.total_pages - 1) * z < total
             /\ p > out.pagination.total_pages => out.data = <<>>
             /\ PagesFrom(db, last'.req, 1, out.pagination.total_pages) = full]_vars

\* C4 witness: three records listed two per page: page 2 holds the third alone.
C4_Witness ==
  /\ last.handler = "handleGetList"
  /\ last.status = 200
  /\ last.body.pagination = [total |-> 3, current_page |-> 2, per_page |-> 2, total_pages |-> 2]
  /\ Len(last.body.data) = 1
  /\ last.body.data[1].id = 3

-----------------------------------------------------------------------------
(* Properties of the application set up through the library, under SpecApi: *)
(* pre(), post() and addCustomRoute() called before, during and after start() *)

InitApi == InitWith([auth : BOOLEAN, delay : {0}])

ArriveApi == Arrive(ApiRequests, MaxId)

NextApi == pre \/ post \/ addCustomRoute \/ start \/ startResume \/ ArriveApi

SpecApi == InitApi /\ [][NextApi]_vars

\* C8: with auth enabled, a request without a valid token is answered 401 and no
\* route handler, built-in or custom, runs for it.
C8_NoHandlerWithoutToken ==
  [][(Served /\ config.auth /\ verify(last'.req.token) = Null)
     => (last'.status = 401 /\ last'.handler = "none")]_vars

\* C9: around the handler of every request a CRUD route serves, the middlewares
\* registered with pre() so far have run before it and those registered with post()
\* after it, each in registration order.
C9_PrePostWrapEveryRequest ==
  [][(Served /\ last'.handler \in CrudHandlers)
     => LET ran == last'.ran
            h == CHOOSE i \in 1..Len(ran) : ran[i] = last'.handler
        IN /\ SubSeq(ran, 1, h - 1) = middlewares.pre
           /\ SubSeq(ran, h + 1, Len(ran)) = middlewares.post]_vars

-----------------------------------------------------------------------------
(* Properties of concurrent requests, under SpecConc: a server with auth and a *)
(* response delay, where requests arrive while others wait for their timer     *)

InitConc == InitWith([auth : {TRUE}, delay : {1}])

ArriveConc == Arrive(ConcRequests, MaxId)

NextConc == start \/ startResume \/ ArriveConc \/ Resume

SpecConc == InitConc /\ [][NextConc]_vars

\* C10: the checks of a handler and its mutation are one step: a DELETE answered 204
\* found its record, owned by the requester, in the state its mutation applies to;
\* a PUT answers with the record exactly when that state holds it; a POST appends
\* its record, with the id after the counter of that state.
C10_HandlersRunUninterrupted ==
  [][Served =>
       /\ (last'.handler = "handleDelete" /\ last'.status = 204) =>
            /\ Target(db, last'.req) # Null
            /\ Target(db, last'.req).createdBy = last'.req.token
       /\ (last'.handler = "handlePut" /\ last'.status = 200) =>
            /\ (last'.body = Null) = (Target(db, last'.req) = Null)
            /\ last'.body # Null => last'.body.id = Target(db, last'.req).id
       /\ (last'.handler = "handlePost" /\ last'.status = 200) =>
            /\ last'.body.data.id = db[UserResource].counter + 1
            /\ Records(db') = Append(Records(db), last'.body.data)]_vars

\* C10 witness: a DELETE has been applied while another request was suspended.
C10_Witness ==
  /\ last.handler = "handleDelete"
  /\ last.status = 204
  /\ pending # <<>>
  /\ Records(db) = <<>>
  /\ db[UserResource].counter > 0

====
